---- MODULE Spec2Model ----
(***************************************************************************)
(* Model of the CPI_transfer program (src/src/lib.rs): one instruction     *)
(* handler, process_instruction, that moves a fixed amount of SPL tokens   *)
(* from a source holding to a destination holding, signing the cross-      *)
(* program call with a program-derived address (PDA).                      *)
(*                                                                         *)
(* The handler is modelled step by step (pc) in the order of its           *)
(* statements.  The runtime's invoke_signed and the SPL Token program's    *)
(* transfer processor are dependencies whose code is not part of the       *)
(* repository; they are modelled from the contract the specification       *)
(* gives for the external token-accounting service.                        *)
(***************************************************************************)
EXTENDS Integers, Sequences, FiniteSets, TLC

VARIABLES
    ledger,       \* the accounts of the chain: Pubkey -> account record
    accounts,     \* accounts: &[AccountInfo], the keys the caller supplied
    pc,           \* position of the handler in its pipeline
    refs,         \* the account references extracted so far (lines 43-51)
    expected,     \* <<expected_authority, bump_seed>> once derived (line 54)
    decimals,     \* mint.decimals once decoded (line 68), -1 before
    request,      \* <<>> or <<r>>: the Transfer Request handed to invoke_signed
    result,       \* "Pending", "Ok" or the ProgramError returned
    failedAt,     \* the statement that returned the error, "" if none
    startAmount,  \* the amount of every account when the invocation started
    rerun         \* TRUE when this invocation repeats the previous, successful one

vars == <<ledger, accounts, pc, refs, expected, decimals, request, result,
          failedAt, startAmount, rerun>>

---------------------------------------------------------------------------
(* Bounds of the model *)

\* accounts supplied to one invocation: 0 .. MaxAccounts
MaxAccounts == 6
\* the source holding starts with at most MaxLots times the fixed amount
MaxLots == 2

---------------------------------------------------------------------------
(* Program constants *)

\* let amount: u64 = 10_000;
AMOUNT == 10000
\* decimals of the test's mint
TEST_DECIMALS == 9
\* find_program_address tries bump seeds from u8::MAX down to 0
MAX_BUMP == 255
\* spl_token::state::Account::LEN and Mint::LEN
ACCOUNT_LEN == 165
MINT_LEN == 82

\* b"authority"
AUTHORITY_SEED == "authority"
\* the program's own id, as the runtime passes it (tests/test.rs line 27)
PROGRAM_ID == "TransferTokens"
\* spl_token::id() and the id of some other program
TOKEN_PROGRAM == "SplToken"
SYSTEM_PROGRAM == "System"
OTHER_PROGRAM == "OtherProgram"

---------------------------------------------------------------------------
(* Pubkeys and the derivation of program addresses *)

\* A key somebody generated (Keypair::new()), or the id of a program.
PlainKey(name) == [kind |-> "key", seed |-> "", bump |-> 0, pid |-> name]

\* The address the hash of (seed, bump, program id) stands for.  The hash is
\* collision resistant: different inputs give different addresses.
HashedKey(seed, bump, pid) == [kind |-> "pda", seed |-> seed, bump |-> bump, pid |-> pid]

\* Whether the hash of (seed, bump, pid) falls on the ed25519 curve.  Which
\* hashes do is a fixed property of the hash; the table below makes the first
\* candidate of this program fall on the curve, so that the search runs.
OnCurve(seed, bump, pid) ==
    IF pid = PROGRAM_ID THEN bump = MAX_BUMP
    ELSE bump \in {MAX_BUMP, MAX_BUMP - 1}

\* Pubkey::create_program_address: <<ok, address>>
CreateProgramAddress(seed, bump, pid) ==
    IF OnCurve(seed, bump, pid)
      THEN <<FALSE, PlainKey("")>>
      ELSE <<TRUE, HashedKey(seed, bump, pid)>>

RECURSIVE TryBump(_, _, _)
TryBump(seed, pid, bump) ==
    IF CreateProgramAddress(seed, bump, pid)[1]
      THEN <<CreateProgramAddress(seed, bump, pid)[2], bump>>
      ELSE IF bump = 0 THEN <<PlainKey(""), -1>>
      ELSE TryBump(seed, pid, bump - 1)

\* Pubkey::find_program_address(&[seed], program_id): <<address, bump_seed>>
FindProgramAddress(seed, pid) == TryBump(seed, pid, MAX_BUMP)

---------------------------------------------------------------------------
(* The accounts of the ledger *)

SOURCE == PlainKey("source")
DESTINATION == PlainKey("destination")
THIRD == PlainKey("third")
MINT == PlainKey("mint")
MINT2 == PlainKey("mint2")
PAYER == PlainKey("payer")
TOKEN == PlainKey(TOKEN_PROGRAM)
FAKE == PlainKey(OTHER_PROGRAM)
\* the address the test derives (tests/test.rs line 35)
PDA == FindProgramAddress(AUTHORITY_SEED, PROGRAM_ID)[1]
\* an address of this program from the same seed and a bump that is not the
\* canonical one
NONCANONICAL == HashedKey(AUTHORITY_SEED, FindProgramAddress(AUTHORITY_SEED, PROGRAM_ID)[2] - 1, PROGRAM_ID)

Keys == {SOURCE, DESTINATION, THIRD, MINT, MINT2, PAYER, TOKEN, FAKE, PDA, NONCANONICAL}

NoKey == PlainKey("")

\* An account: the program that owns it and what its data holds.  len is the
\* size of the data; the other fields are what the data decodes to when it
\* has the size of a holding (ACCOUNT_LEN) or of a mint (MINT_LEN).
Empty(owner) ==
    [owner |-> owner, len |-> 0, init |-> FALSE, frozen |-> FALSE, mint |-> NoKey,
     authority |-> NoKey, amount |-> 0, decimals |-> 0]

Holding(mint, authority, amount) ==
    [owner |-> TOKEN_PROGRAM, len |-> ACCOUNT_LEN, init |-> TRUE, frozen |-> FALSE,
     mint |-> mint, authority |-> authority, amount |-> amount, decimals |-> 0]

MintAccount(dec) ==
    [owner |-> TOKEN_PROGRAM, len |-> MINT_LEN, init |-> TRUE, frozen |-> FALSE,
     mint |-> NoKey, authority |-> PAYER, amount |-> 0, decimals |-> dec]

\* What the third holding may be
HoldingVariants == {"uninitialized", "wrongSize", "frozen", "foreignOwner", "otherMint"}

ThirdHolding(v) ==
    CASE v = "uninitialized" -> [Holding(MINT, PDA, AMOUNT) EXCEPT !.init = FALSE]
      [] v = "wrongSize"     -> [Holding(MINT, PDA, AMOUNT) EXCEPT !.len = ACCOUNT_LEN - 1]
      [] v = "frozen"        -> [Holding(MINT, PDA, AMOUNT) EXCEPT !.frozen = TRUE]
      [] v = "foreignOwner"  -> [Holding(MINT, PDA, AMOUNT) EXCEPT !.owner = OTHER_PROGRAM]
      [] OTHER               -> Holding(MINT2, PDA, AMOUNT)

\* What the second token-class descriptor may be
MintVariants == {"uninitialized", "wrongSize", "foreignOwner"}

SecondMint(v) ==
    CASE v = "uninitialized" -> [MintAccount(TEST_DECIMALS) EXCEPT !.init = FALSE]
      [] v = "wrongSize"     -> [MintAccount(TEST_DECIMALS) EXCEPT !.len = MINT_LEN - 1]
      [] OTHER               -> [MintAccount(TEST_DECIMALS) EXCEPT !.owner = OTHER_PROGRAM]

\* The balances the source holding may start with (mint_to, tests/test.rs
\* lines 127-142, mints AMOUNT)
InitBalances == {AMOUNT - 1, AMOUNT, MaxLots * AMOUNT}

\* The ledger the test builds (tests/test.rs lines 48-142), with the choices
\* the test fixes left open.
InitLedger(srcAmount, dstAuthority, third, mint2) ==
    [k \in Keys |->
        CASE k = SOURCE      -> Holding(MINT, PDA, srcAmount)
          [] k = DESTINATION -> Holding(MINT, dstAuthority, 0)
          [] k = THIRD       -> ThirdHolding(third)
          [] k = MINT        -> MintAccount(TEST_DECIMALS)
          [] k = MINT2       -> SecondMint(mint2)
          [] k = TOKEN       -> Empty("Loader")
          [] k = FAKE        -> Empty("Loader")
          [] OTHER           -> Empty(SYSTEM_PROGRAM)]

---------------------------------------------------------------------------
(* Pack::unpack of spl_token::state::Account and Mint *)

\* Account::unpack(&info.try_borrow_data()?): the data alone is looked at,
\* its size and its initialized flag; "Ok" or the ProgramError
UnpackAccount(acct) ==
    IF acct.len # ACCOUNT_LEN THEN "InvalidAccountData"
    ELSE IF ~acct.init THEN "UninitializedAccount"
    ELSE "Ok"

\* Mint::unpack(&info.try_borrow_data()?)
UnpackMint(acct) ==
    IF acct.len # MINT_LEN THEN "InvalidAccountData"
    ELSE IF ~acct.init THEN "UninitializedAccount"
    ELSE "Ok"

---------------------------------------------------------------------------
(* The external token-accounting service *)

\* The token program's transfer: <<result, ledger as the program leaves it>>.
\* A transfer of a holding to itself is checked and moves nothing.
ProcessTransfer(L, src, mint, dst, auth, authSigned, amount, dec) ==
    LET s == L[src]
        d == L[dst] IN
    IF UnpackAccount(s) # "Ok" THEN <<UnpackAccount(s), L>>
    ELSE IF UnpackAccount(d) # "Ok" THEN <<UnpackAccount(d), L>>
    ELSE IF s.frozen \/ d.frozen THEN <<"AccountFrozen", L>>
    ELSE IF s.amount < amount THEN <<"InsufficientFunds", L>>
    ELSE IF s.mint # d.mint THEN <<"MintMismatch", L>>
    ELSE IF mint # s.mint THEN <<"MintMismatch", L>>
    ELSE IF UnpackMint(L[mint]) # "Ok" THEN <<UnpackMint(L[mint]), L>>
    ELSE IF dec # L[mint].decimals THEN <<"MintDecimalsMismatch", L>>
    ELSE IF s.authority # auth THEN <<"OwnerMismatch", L>>
    ELSE IF ~authSigned THEN <<"MissingRequiredSignature", L>>
    ELSE IF src = dst
      THEN <<IF s.owner = TOKEN_PROGRAM THEN "Ok" ELSE "IncorrectProgramId", L>>
    ELSE <<"Ok", [L EXCEPT ![src].amount = @ - amount, ![dst].amount = @ + amount]>>

\* The instruction spl_token::instruction::transfer_checked builds:
\* <<result, instruction>>.  It refuses a token program id that is not
\* spl_token::id().  With no multisig signers the authority is marked signer.
TransferChecked(tokenProgram, src, mint, dst, auth, amount, dec) ==
    <<IF tokenProgram = TOKEN THEN "Ok" ELSE "IncorrectProgramId",
      [program |-> tokenProgram, source |-> src, mint |-> mint, destination |-> dst,
       authority |-> auth, amount |-> amount, decimals |-> dec]>>

\* invoke_signed: the runtime derives the signer from the seeds presented and
\* the id of the calling program, grants the signature only to that address,
\* runs the token program, and refuses what the program wrote to an account
\* it does not own: <<result, ledger as the call leaves it>>
InvokeSigned(L, ins, seeds, caller) ==
    LET signer == CreateProgramAddress(seeds[1], seeds[2], caller)
        ran    == ProcessTransfer(L, ins.source, ins.mint, ins.destination, ins.authority,
                                  TRUE, ins.amount, ins.decimals) IN
    IF ~signer[1] THEN <<"BadSeeds", L>>
    ELSE IF ins.authority # signer[2] THEN <<"PrivilegeEscalation", L>>
    ELSE IF ins.program # TOKEN THEN <<"IncorrectProgramId", L>>
    ELSE IF ran[1] = "Ok" /\ \E k \in Keys : ran[2][k] # L[k] /\ L[k].owner # TOKEN_PROGRAM
      THEN <<"ExternalAccountDataModified", ran[2]>>
    ELSE ran

\* Commit that keeps the writes of a failed instruction
CommitAlways(res, before, after) == after

\* The runtime keeps what an instruction wrote only if it returned Ok
Commit(res, before, after) == IF res = "Ok" THEN after ELSE before

---------------------------------------------------------------------------
(* process_instruction, statement by statement *)

\* next_account_info(account_info_iter)? as the i-th call: <<result, key>>
NextAccountInfo(accs, i) ==
    IF i <= Len(accs) THEN <<"Ok", accs[i]>> ELSE <<"NotEnoughAccountKeys", NoKey>>

\* The five references the handler names, in the order it takes them:
\* source_info, mint_info, destination_info, authority_info, token_program_info
NumRefs == 5

\* TakeAccounts that refuses a slice of more than five accounts
TakeExactlyFive(accs) ==
    IF Len(accs) # NumRefs
      THEN <<"NotEnoughAccountKeys", <<>> >>
      ELSE <<"Ok", [i \in 1..NumRefs |-> accs[i]]>>

\* lines 43-51: <<result, refs>>
TakeAccounts(accs) ==
    IF \E i \in 1..NumRefs : NextAccountInfo(accs, i)[1] # "Ok"
      THEN <<"NotEnoughAccountKeys", <<>> >>
      ELSE <<"Ok", [i \in 1..NumRefs |-> NextAccountInfo(accs, i)[2]]>>

\* line 54
DeriveExpected(pid) == FindProgramAddress(AUTHORITY_SEED, pid)

\* AuthorityMatches with the comparison left out
AuthorityNotCompared(exp, key) == TRUE

\* AuthorityMatches with the bump seed left out of the comparison
AuthorityMatchesAnyBump(exp, key) ==
    key.kind = exp.kind /\ key.seed = exp.seed /\ key.pid = exp.pid

\* line 57: expected_authority != *authority_info.key is the failure
AuthorityMatches(exp, key) == exp = key

\* DecodeBoth with the mint unpacked before the source holding
DecodeMintFirst(L, rf) ==
    IF UnpackMint(L[rf[2]]) # "Ok" THEN <<UnpackMint(L[rf[2]]), "mint", -1>>
    ELSE IF UnpackAccount(L[rf[1]]) # "Ok" THEN <<UnpackAccount(L[rf[1]]), "source", -1>>
    ELSE <<"Ok", "", L[rf[2]].decimals>>

\* lines 63-68: the source holding is unpacked, then the mint:
\* <<result, statement that failed, decimals>>
DecodeBoth(L, rf) ==
    IF UnpackAccount(L[rf[1]]) # "Ok" THEN <<UnpackAccount(L[rf[1]]), "source", -1>>
    ELSE IF UnpackMint(L[rf[2]]) # "Ok" THEN <<UnpackMint(L[rf[2]]), "mint", -1>>
    ELSE <<"Ok", "", L[rf[2]].decimals>>

\* AuthoritySeeds with the first bump seed tried instead of the one found
AuthoritySeedsFirstBump(bump) == <<AUTHORITY_SEED, MAX_BUMP>>

\* line 71
AuthoritySeeds(bump) == <<AUTHORITY_SEED, bump>>

\* BuildRequest with the amount one unit short
BuildRequestShort(rf, dec) ==
    TransferChecked(rf[5], rf[1], rf[2], rf[3], rf[4], AMOUNT - 1, dec)

\* lines 85-94
BuildRequest(rf, dec) == TransferChecked(rf[5], rf[1], rf[2], rf[3], rf[4], AMOUNT, dec)

\* Propagate that drops the error of the call
PropagateNothing(r) == "Ok"

\* line 103: the ? after invoke_signed returns the error of the call
Propagate(r) == r

\* lines 84-103: <<result, ledger after, request submitted>>
SubmitRequest(L, rf, dec, bump, pid) ==
    LET built == BuildRequest(rf, dec) IN
    IF built[1] # "Ok" THEN <<built[1], L, <<>> >>
    ELSE LET cpi == InvokeSigned(L, built[2], AuthoritySeeds(bump), pid) IN
         <<Propagate(cpi[1]), cpi[2], <<[ins |-> built[2], proof |-> AuthoritySeeds(bump)]>> >>

\* The handler as one function of the accounts and the ledger:
\* [result, failedAt, ledger, request]
ProcessInstruction(pid, accs, L) ==
    LET taken == TakeAccounts(accs)
        exp   == DeriveExpected(pid)
        dec   == DecodeBoth(L, taken[2])
        sub   == SubmitRequest(L, taken[2], dec[3], exp[2], pid) IN
    IF taken[1] # "Ok"
      THEN [result |-> taken[1], failedAt |-> "extract", ledger |-> L, request |-> <<>>]
    ELSE IF ~AuthorityMatches(exp[1], taken[2][4])
      THEN [result |-> "InvalidSeeds", failedAt |-> "validate", ledger |-> L, request |-> <<>>]
    ELSE IF dec[1] # "Ok"
      THEN [result |-> dec[1], failedAt |-> dec[2], ledger |-> L, request |-> <<>>]
    ELSE IF sub[1] # "Ok"
      THEN [result |-> sub[1], failedAt |-> "submit",
            ledger |-> Commit(sub[1], L, sub[2]), request |-> sub[3]]
    ELSE [result |-> "Ok", failedAt |-> "", ledger |-> Commit(sub[1], L, sub[2]),
          request |-> sub[3]]

\* The failure kinds of the specification's taxonomy
Kind(res, at) ==
    CASE res = "Ok"      -> "Success"
      [] res = "Pending" -> "Pending"
      [] at = "extract"  -> "MissingAccount"
      [] at = "validate" -> "InvalidAuthority"
      [] at = "source"   -> "MalformedAccount"
      [] at = "mint"     -> "MalformedTokenClass"
      [] res \in {"BadSeeds", "PrivilegeEscalation", "MissingRequiredSignature"} -> "DelegationRejected"
      [] OTHER           -> "TransferRejected"

---------------------------------------------------------------------------
(* The account lists callers supply *)

Swap(s, i, j) == [k \in DOMAIN s |-> IF k = i THEN s[j] ELSE IF k = j THEN s[i] ELSE s[k]]

Pairs == {p \in (1..NumRefs) \X (1..NumRefs) : p[1] < p[2]}

\* five accounts, each position drawn from the accounts a caller may put
\* there; a wrong token program comes with the right mint and authority
BaseLists ==
    {b \in {<<a, m, d, au, t>> : a \in {SOURCE, DESTINATION, THIRD}, m \in {MINT, MINT2},
                                 d \in {DESTINATION, SOURCE, THIRD},
                                 au \in {PDA, PAYER, NONCANONICAL}, t \in {TOKEN, FAKE}} :
        b[5] = TOKEN \/ (b[4] = PDA /\ b[2] = MINT)}

\* lists in the order the handler documents, and the same with two positions exchanged
OrderedLists ==
    {<<a, MINT, d, PDA, TOKEN>> : a \in {SOURCE, DESTINATION}, d \in {SOURCE, DESTINATION}}

SwappedLists == {Swap(b, p[1], p[2]) : b \in OrderedLists, p \in Pairs}

\* fewer than five
ShortLists ==
    {SubSeq(b, 1, n) : b \in {x \in BaseLists : x[2] = MINT /\ x[4] = PDA},
                       n \in 0..(NumRefs - 1)}

RECURSIVE Extend(_, _)
Extend(b, n) == IF n = 0 THEN b ELSE Append(Extend(b, n - 1), PAYER)

\* more than five, the first five naming the token program
LongLists ==
    {Extend(b, n) : b \in {x \in BaseLists : x[5] = TOKEN /\ x[4] # PAYER /\ x[2] = MINT},
                    n \in 1..(MaxAccounts - NumRefs)}

AccountLists == BaseLists \cup SwappedLists \cup ShortLists \cup LongLists

---------------------------------------------------------------------------
(* The state machine *)

Terminal == {"Done", "Aborted"}

\* the amount field of every account
Amounts(L) == [k \in Keys |-> L[k].amount]

\* The ledger when the invocation started: amounts are all a transfer writes
startLedger == [k \in Keys |-> [ledger[k] EXCEPT !.amount = startAmount[k]]]

Init ==
    /\ \E a \in InitBalances, au \in {PDA, PAYER}, h \in HoldingVariants, m \in MintVariants :
          ledger = InitLedger(a, au, h, m)
    /\ accounts = <<>>
    /\ pc = "Idle"
    /\ refs = <<>>
    /\ expected = <<NoKey, -1>>
    /\ decimals = -1
    /\ request = <<>>
    /\ result = "Pending"
    /\ failedAt = ""
    /\ startAmount = Amounts(ledger)
    /\ rerun = FALSE

Begin(accs, again) ==
    /\ accounts' = accs
    /\ pc' = "ExtractAccounts"
    /\ refs' = <<>>
    /\ expected' = <<NoKey, -1>>
    /\ decimals' = -1
    /\ request' = <<>>
    /\ result' = "Pending"
    /\ failedAt' = ""
    /\ startAmount' = Amounts(ledger)
    /\ rerun' = again
    /\ UNCHANGED ledger

\* the runtime calls the entrypoint with the accounts of an instruction
Invoke ==
    /\ pc = "Idle"
    /\ \E accs \in AccountLists : Begin(accs, FALSE)

\* the same instruction is sent again after it succeeded
Rerun ==
    /\ pc = "Done"
    /\ Begin(accounts, TRUE)

\* the handler has returned; nothing of the invocation is kept
Return ==
    /\ pc \in Terminal
    /\ accounts' = <<>>
    /\ pc' = "Idle"
    /\ refs' = <<>>
    /\ expected' = <<NoKey, -1>>
    /\ decimals' = -1
    /\ request' = <<>>
    /\ result' = "Pending"
    /\ failedAt' = ""
    /\ startAmount' = Amounts(ledger)
    /\ rerun' = FALSE
    /\ UNCHANGED ledger

Abort(err, at) ==
    /\ pc' = "Aborted"
    /\ result' = err
    /\ failedAt' = at

ExtractAccounts ==
    /\ pc = "ExtractAccounts"
    /\ LET taken == TakeAccounts(accounts) IN
       IF taken[1] # "Ok"
         THEN Abort(taken[1], "extract") /\ UNCHANGED refs
         ELSE /\ refs' = taken[2]
              /\ pc' = "DeriveAuthority"
              /\ UNCHANGED <<result, failedAt>>
    /\ UNCHANGED <<ledger, accounts, expected, decimals, request, startAmount, rerun>>

DeriveAuthority ==
    /\ pc = "DeriveAuthority"
    /\ expected' = DeriveExpected(PROGRAM_ID)
    /\ pc' = "ValidateAuthority"
    /\ UNCHANGED <<ledger, accounts, refs, decimals, request, result, failedAt, startAmount, rerun>>

\* ValidateAuthority that goes on to the transfer without the decoding
ValidateThenSubmit ==
    /\ pc = "ValidateAuthority"
    /\ IF ~AuthorityMatches(expected[1], refs[4])
         THEN Abort("InvalidSeeds", "validate")
         ELSE pc' = "SubmitTransfer" /\ UNCHANGED <<result, failedAt>>
    /\ UNCHANGED <<ledger, accounts, refs, expected, decimals, request, startAmount, rerun>>

ValidateAuthority ==
    /\ pc = "ValidateAuthority"
    /\ IF ~AuthorityMatches(expected[1], refs[4])
         THEN Abort("InvalidSeeds", "validate")
         ELSE pc' = "DecodeInputs" /\ UNCHANGED <<result, failedAt>>
    /\ UNCHANGED <<ledger, accounts, refs, expected, decimals, request, startAmount, rerun>>

DecodeInputs ==
    /\ pc = "DecodeInputs"
    /\ LET dec == DecodeBoth(ledger, refs) IN
       IF dec[1] # "Ok"
         THEN Abort(dec[1], dec[2]) /\ UNCHANGED decimals
         ELSE /\ decimals' = dec[3]
              /\ pc' = "SubmitTransfer"
              /\ UNCHANGED <<result, failedAt>>
    /\ UNCHANGED <<ledger, accounts, refs, expected, request, startAmount, rerun>>

SubmitTransfer ==
    /\ pc = "SubmitTransfer"
    /\ LET sub == SubmitRequest(ledger, refs, decimals, expected[2], PROGRAM_ID) IN
       /\ request' = sub[3]
       /\ ledger' = Commit(sub[1], ledger, sub[2])
       /\ IF sub[1] # "Ok"
            THEN Abort(sub[1], "submit")
            ELSE /\ pc' = "Done"
                 /\ result' = "Ok"
                 /\ UNCHANGED failedAt
    /\ UNCHANGED <<accounts, refs, expected, decimals, startAmount, rerun>>

Next ==
    \/ Invoke
    \/ Rerun
    \/ Return
    \/ ExtractAccounts
    \/ DeriveAuthority
    \/ ValidateAuthority
    \/ DecodeInputs
    \/ SubmitTransfer

Spec == Init /\ [][Next]_vars

\* The runtime runs an instruction it started to its end
FairSpec ==
    Spec /\ WF_vars(ExtractAccounts \/ DeriveAuthority \/ ValidateAuthority
                      \/ DecodeInputs \/ SubmitTransfer)

---------------------------------------------------------------------------
(* Properties *)

Ended == pc \in Terminal

\* the amount the specification fixes
FixedAmount == 10000

Balances(L) == Amounts(L)

FailureKinds ==
    {"MissingAccount", "InvalidAuthority", "MalformedTokenClass", "MalformedAccount",
     "DelegationRejected", "TransferRejected"}

\* C1 - Authorization soundness: an invocation with five (or more) accounts
\* whose fourth account is not the address derived from "authority" and the
\* program id never gets past the validation, fails with InvalidSeeds
\* (InvalidAuthority), submits no Transfer Request and changes no balance,
\* whatever the other accounts are.
AuthorizationSoundness ==
    (pc # "Idle" /\ Len(accounts) >= NumRefs
       /\ accounts[4] # FindProgramAddress(AUTHORITY_SEED, PROGRAM_ID)[1])
    => /\ pc \in {"ExtractAccounts", "DeriveAuthority", "ValidateAuthority", "Aborted"}
       /\ request = <<>>
       /\ Balances(ledger) = Balances(startLedger)
       /\ pc = "Aborted" => /\ result = "InvalidSeeds"
                            /\ Kind(result, failedAt) = "InvalidAuthority"

\* an impostor authority with an undecodable source and token class was refused
SoundnessWitness ==
    /\ pc = "Aborted"
    /\ Len(accounts) = NumRefs
    /\ accounts[4] = NONCANONICAL
    /\ UnpackAccount(ledger[accounts[1]]) # "Ok"
    /\ UnpackMint(ledger[accounts[2]]) # "Ok"
    /\ result = "InvalidSeeds"

\* The external service (the runtime and the token program) accepts the
\* transfer of the fixed amount that the five accounts name, presented with
\* the proof for the derived address
ServiceAccepts(L, accs) ==
    /\ accs[5] = TOKEN
    /\ InvokeSigned(L, [program |-> accs[5], source |-> accs[1], mint |-> accs[2],
                        destination |-> accs[3], authority |-> accs[4],
                        amount |-> FixedAmount, decimals |-> L[accs[2]].decimals],
                    <<AUTHORITY_SEED, FindProgramAddress(AUTHORITY_SEED, PROGRAM_ID)[2]>>,
                    PROGRAM_ID)[1] = "Ok"

CompletenessCase ==
    /\ Ended
    /\ Len(accounts) >= NumRefs
    /\ accounts[4] = FindProgramAddress(AUTHORITY_SEED, PROGRAM_ID)[1]
    /\ UnpackAccount(startLedger[accounts[1]]) = "Ok"
    /\ UnpackAccount(startLedger[accounts[3]]) = "Ok"
    /\ UnpackMint(startLedger[accounts[2]]) = "Ok"
    /\ ServiceAccepts(startLedger, accounts)

Moved(from, to, amount) ==
    /\ ledger[to].amount = startLedger[to].amount + amount
    /\ ledger[from].amount = startLedger[from].amount - amount

\* C2 as stated - Authorization completeness: with the derived authority,
\* decodable source, destination and token class and a transfer the service
\* accepts, the handler succeeds, the destination gains exactly 10,000 and
\* the source loses exactly 10,000.
CompletenessAsStated ==
    CompletenessCase
    => result = "Ok" /\ Moved(accounts[1], accounts[3], FixedAmount)

\* C2 amended - the same, for a source and a destination that are two
\* different holdings; when they are the same holding the handler succeeds
\* and no balance changes.
AuthorizationCompleteness ==
    CompletenessCase
    => /\ result = "Ok"
       /\ accounts[1] # accounts[3] => Moved(accounts[1], accounts[3], FixedAmount)
       /\ accounts[1] = accounts[3] => Balances(ledger) = Balances(startLedger)

\* the test's scenario: 10,000 moved from the source to the destination
CompletenessWitness ==
    /\ pc = "Done"
    /\ accounts = <<SOURCE, MINT, DESTINATION, PDA, TOKEN>>
    /\ startLedger[SOURCE].amount = FixedAmount
    /\ ledger[SOURCE].amount = 0
    /\ ledger[DESTINATION].amount = FixedAmount

\* C3 - Atomicity on failure: whenever the handler has returned an error, of
\* whichever of the six kinds, every balance is what it was when the
\* invocation started.
AtomicityOnFailure ==
    pc = "Aborted"
    => /\ Kind(result, failedAt) \in FailureKinds
       /\ Balances(ledger) = Balances(startLedger)

\* the token program moved the tokens and the runtime refused the write to a
\* destination the token program does not own
AtomicityWitness ==
    /\ pc = "Aborted"
    /\ result = "ExternalAccountDataModified"
    /\ request # <<>>
    /\ ledger = startLedger

DerivedAuthority == FindProgramAddress(AUTHORITY_SEED, PROGRAM_ID)[1]

\* The handler would succeed on these five accounts in the ledger L
WouldSucceed(accs, L) == ProcessInstruction(PROGRAM_ID, accs, L).result = "Ok"

\* The invocation that ended ran on a list obtained by exchanging positions
\* p[1] and p[2] of a list the handler would have succeeded on
SwappedFromSuccess(p) ==
    /\ Ended
    /\ Len(accounts) = NumRefs
    /\ Swap(accounts, p[1], p[2]) # accounts
    /\ WouldSucceed(Swap(accounts, p[1], p[2]), startLedger)

SwapOutcomes == {"MalformedAccount", "MalformedTokenClass", "InvalidAuthority", "TransferRejected"}

\* C4 as stated - Order sensitivity: exchanging any two of the five positions
\* of a list the handler would succeed on ends in a decode failure,
\* InvalidAuthority or TransferRejected, never in success.
OrderSensitivityAsStated ==
    \A p \in Pairs :
        SwappedFromSuccess(p) => Kind(result, failedAt) \in SwapOutcomes

\* C4 amended - the same for every exchange but that of source and
\* destination, and no balance changes; the exchange of source and
\* destination succeeds exactly when the service accepts the transfer in the
\* other direction, and then moves the amount from the former destination.
OrderSensitivity ==
    \A p \in Pairs :
        SwappedFromSuccess(p)
        => IF p = <<1, 3>>
             THEN /\ result = "Ok" <=> ServiceAccepts(startLedger, accounts)
                  /\ result = "Ok" => Moved(accounts[1], accounts[3], FixedAmount)
             ELSE /\ Kind(result, failedAt) \in SwapOutcomes
                  /\ Balances(ledger) = Balances(startLedger)

\* destination and token program exchanged: the request could not be built
OrderWitness ==
    /\ SwappedFromSuccess(<<3, 5>>)
    /\ pc = "Aborted"
    /\ failedAt = "submit"
    /\ accounts[5] = DESTINATION

\* C5 - Re-running after success: the invocation that repeats a successful
\* one whose source (a holding other than the destination) was left with 0
\* fails with InsufficientFunds (TransferRejected) and leaves every balance
\* as the first left it; and any invocation whose source holding decodes and
\* holds less than 10,000 fails and changes no balance.
RerunFails ==
    /\ (Ended /\ rerun /\ accounts[1] # accounts[3] /\ startLedger[accounts[1]].amount = 0)
       => /\ result = "InsufficientFunds"
          /\ Kind(result, failedAt) = "TransferRejected"
          /\ Balances(ledger) = Balances(startLedger)
    /\ (Ended /\ Len(accounts) >= NumRefs
          /\ UnpackAccount(startLedger[accounts[1]]) = "Ok"
          /\ startLedger[accounts[1]].amount < FixedAmount)
       => /\ result # "Ok"
          /\ Balances(ledger) = Balances(startLedger)

\* the test's invocation sent twice: source 0, destination 10,000
RerunWitness ==
    /\ pc = "Aborted"
    /\ rerun
    /\ accounts = <<SOURCE, MINT, DESTINATION, PDA, TOKEN>>
    /\ result = "InsufficientFunds"
    /\ ledger[SOURCE].amount = 0
    /\ ledger[DESTINATION].amount = FixedAmount

\* C6 - Account extraction: with fewer than five accounts the handler fails
\* with NotEnoughAccountKeys (MissingAccount) and has derived, decoded and
\* submitted nothing; with more than five it ends as the handler run on the
\* first five alone: same result, same ledger, same request.
AccountExtraction ==
    /\ (pc # "Idle" /\ Len(accounts) < NumRefs)
       => /\ pc \in {"ExtractAccounts", "Aborted"}
          /\ expected[2] = -1
          /\ decimals = -1
          /\ request = <<>>
          /\ ledger = startLedger
          /\ pc = "Aborted" => /\ result = "NotEnoughAccountKeys"
                               /\ Kind(result, failedAt) = "MissingAccount"
    /\ (Ended /\ Len(accounts) > NumRefs)
       => [result |-> result, failedAt |-> failedAt, ledger |-> ledger, request |-> request]
            = ProcessInstruction(PROGRAM_ID, SubSeq(accounts, 1, NumRefs), startLedger)

\* six accounts, the sixth ignored, and the transfer done
ExtractionWitness ==
    /\ pc = "Done"
    /\ Len(accounts) > NumRefs
    /\ accounts[NumRefs + 1] = PAYER
    /\ ledger # startLedger

\* C7 as stated - Token-class validation, the case the claim singles out:
\* with the derived authority, a descriptor of the right size that is
\* initialized and owned by another program makes the handler fail with
\* MalformedTokenClass and no Transfer Request is submitted.
ForeignDescriptorRejected ==
    (Ended /\ Len(accounts) >= NumRefs /\ accounts[4] = DerivedAuthority
       /\ UnpackAccount(startLedger[accounts[1]]) = "Ok"
       /\ startLedger[accounts[2]].len = MINT_LEN
       /\ startLedger[accounts[2]].init
       /\ startLedger[accounts[2]].owner # TOKEN_PROGRAM)
    => /\ Kind(result, failedAt) = "MalformedTokenClass"
       /\ request = <<>>

\* The steps a step of the pipeline may be followed by
Successors ==
    [Idle |-> {"ExtractAccounts"},
     ExtractAccounts |-> {"DeriveAuthority", "Aborted"},
     DeriveAuthority |-> {"ValidateAuthority", "Aborted"},
     ValidateAuthority |-> {"DecodeInputs", "Aborted"},
     DecodeInputs |-> {"SubmitTransfer", "Aborted"},
     SubmitTransfer |-> {"Done", "Aborted"},
     Done |-> {"Idle", "ExtractAccounts"},
     Aborted |-> {"Idle"}]

\* C8 - Pipeline shape: an invocation goes through ExtractAccounts,
\* DeriveAuthority, ValidateAuthority, DecodeInputs, SubmitTransfer in this
\* order, one step at a time, a failure leading straight to Aborted; it
\* always ends in Done or Aborted; SubmitTransfer is entered only with the
\* authority validated and the inputs decoded, Done only with the transfer
\* accepted, and nothing follows Aborted but the next invocation.
PipelineStep ==
    /\ pc' # pc => pc' \in Successors[pc]
    /\ (pc \in Terminal /\ pc' = "ExtractAccounts") => (pc = "Done" /\ rerun')
    /\ pc' = "SubmitTransfer"
         => /\ pc = "DecodeInputs"
            /\ AuthorityMatches(expected[1], refs[4])
            /\ DecodeBoth(ledger, refs)[1] = "Ok"
            /\ decimals' = ledger[refs[2]].decimals
    /\ pc' = "Done" => (pc = "SubmitTransfer" /\ result' = "Ok" /\ request' # <<>>)
    /\ pc' = "Aborted" <=> result' \notin {"Pending", "Ok"}

PipelineShape ==
    /\ [][PipelineStep]_vars
    /\ (pc = "ExtractAccounts") ~> Ended

\* an invocation that went all the way
PipelineWitness ==
    /\ pc = "Done"
    /\ refs = accounts
    /\ expected[1] = refs[4]
    /\ decimals = TEST_DECIMALS
    /\ request # <<>>

SourceFails(L, accs) == UnpackAccount(L[accs[1]]) # "Ok"
MintFails(L, accs) == UnpackMint(L[accs[2]]) # "Ok"

\* C9 as stated - Error precedence, the case the claim singles out: with the
\* derived authority and both the token class and the source holding
\* undecodable, the handler fails with MalformedTokenClass, the error of the
\* token class.
TokenClassDecodedFirst ==
    (Ended /\ Len(accounts) >= NumRefs /\ accounts[4] = DerivedAuthority
       /\ MintFails(startLedger, accounts) /\ SourceFails(startLedger, accounts))
    => /\ Kind(result, failedAt) = "MalformedTokenClass"
       /\ result = UnpackMint(startLedger[accounts[2]])

\* C9 amended - the error returned is that of the first failing step in the
\* order extract, derive, validate authority, read source holding, read
\* token class, submit: with the derived authority and both undecodable the
\* handler fails with MalformedAccount, the error of the source holding, and
\* the token class is decoded only if the source holding was.
ErrorPrecedence ==
    Ended =>
      IF Len(accounts) < NumRefs THEN Kind(result, failedAt) = "MissingAccount"
      ELSE IF accounts[4] # DerivedAuthority THEN Kind(result, failedAt) = "InvalidAuthority"
      ELSE IF SourceFails(startLedger, accounts)
        THEN /\ Kind(result, failedAt) = "MalformedAccount"
             /\ result = UnpackAccount(startLedger[accounts[1]])
      ELSE IF MintFails(startLedger, accounts)
        THEN /\ Kind(result, failedAt) = "MalformedTokenClass"
             /\ result = UnpackMint(startLedger[accounts[2]])
      ELSE failedAt \in {"", "submit"}

\* a source of the wrong size and an uninitialized token class: the error is
\* the source's
PrecedenceWitness ==
    /\ pc = "Aborted"
    /\ Len(accounts) = NumRefs
    /\ accounts[4] = DerivedAuthority
    /\ UnpackAccount(startLedger[accounts[1]]) = "InvalidAccountData"
    /\ UnpackMint(startLedger[accounts[2]]) = "UninitializedAccount"
    /\ result = "InvalidAccountData"
    /\ failedAt = "source"

\* C10 - The delegation proof always verifies: a submitted Transfer Request
\* names as authorizer the fourth account, which is the derived address, and
\* carries as proof the seed "authority" and the bump seed of that
\* derivation, from which the runtime derives the authorizer's address; no
\* invocation ends in DelegationRejected.
DelegationProofVerifies ==
    /\ request # <<>>
       => /\ request[1].ins.authority = refs[4]
          /\ refs[4] = DerivedAuthority
          /\ request[1].proof = <<AUTHORITY_SEED, FindProgramAddress(AUTHORITY_SEED, PROGRAM_ID)[2]>>
          /\ CreateProgramAddress(request[1].proof[1], request[1].proof[2], PROGRAM_ID)
               = <<TRUE, request[1].ins.authority>>
    /\ Kind(result, failedAt) # "DelegationRejected"

\* a request whose proof was accepted and whose transfer the token program refused
DelegationWitness ==
    /\ pc = "Aborted"
    /\ request # <<>>
    /\ result = "AccountFrozen"

====
